---- MODULE Spec2Model ----
(***************************************************************************)
(* Point-by-point match scoring (tennis and pickleball engines), the       *)
(* engine registry, and the score_events / match_scores coordination of    *)
(* the scoring hooks (useScorePoint, useUndoPoint, useMatchState).         *)
(*                                                                         *)
(* Conventions                                                             *)
(*   - null is modelled by NoTeam (0) for a Team | null field and by the   *)
(*     empty sequence for an object | null field (tiebreakScore is << >>   *)
(*     or a one-element sequence holding the tally record).                *)
(*   - arrays are sequences; the code's 0-based index i is element i + 1.  *)
(***************************************************************************)
EXTENDS Integers, Sequences, FiniteSets, TLC

(***************************************************************************)
(* Bounds of the model.                                                    *)
(***************************************************************************)
\* How far past its target an open-ended count (tiebreak tally, games of a
\* set without tiebreak, pickleball tally under win-by-two) may run.
MaxOver == 2

\* Longest event history explored where the whole log is part of the state.
MaxHistory == 5

\* Longest score_events log explored by one scorer working alone.
MaxEvents == 8

\* Longest score_events log explored with two scorers interleaving.
MaxConcEvents == 2

\* Most mutations the two scorers start between them when interleaving.
MaxMutations == 3

(***************************************************************************)
(* Types (scoring.types.ts)                                                *)
(***************************************************************************)
Team == {1, 2}

\* the null of `1 | 2 | null`
NoTeam == 0

TENNIS_POINTS == <<"0", "15", "30", "40">>

SportType == {"tennis", "pickleball", "badminton", "padel"}

\* Scoring policies explored.  An absent pointsPerGame is 0 (both are falsy
\* in `config.pointsPerGame || 11`).
TennisConfigs ==
  { [sport |-> "tennis", setsToWin |-> 2, gamesPerSet |-> 2, tiebreakAt |-> 2,
     finalSetTiebreak |-> TRUE, finalSetTiebreakPoints |-> 5,
     advantageScoring |-> TRUE, pointsPerGame |-> 0,
     winByTwo |-> TRUE, rallyScoring |-> FALSE],
    [sport |-> "tennis", setsToWin |-> 1, gamesPerSet |-> 3, tiebreakAt |-> 2,
     finalSetTiebreak |-> TRUE, finalSetTiebreakPoints |-> 3,
     advantageScoring |-> FALSE, pointsPerGame |-> 0,
     winByTwo |-> FALSE, rallyScoring |-> FALSE],
    [sport |-> "tennis", setsToWin |-> 1, gamesPerSet |-> 2, tiebreakAt |-> 0,
     finalSetTiebreak |-> FALSE, finalSetTiebreakPoints |-> 0,
     advantageScoring |-> TRUE, pointsPerGame |-> 0,
     winByTwo |-> TRUE, rallyScoring |-> FALSE],
    [sport |-> "tennis", setsToWin |-> 2, gamesPerSet |-> 1, tiebreakAt |-> 1,
     finalSetTiebreak |-> FALSE, finalSetTiebreakPoints |-> 10,
     advantageScoring |-> FALSE, pointsPerGame |-> 0,
     winByTwo |-> TRUE, rallyScoring |-> FALSE] }

PickleballConfigs ==
  { [sport |-> "pickleball", setsToWin |-> 2, gamesPerSet |-> 1, tiebreakAt |-> 0,
     finalSetTiebreak |-> FALSE, finalSetTiebreakPoints |-> 0,
     advantageScoring |-> FALSE, pointsPerGame |-> 3,
     winByTwo |-> TRUE, rallyScoring |-> TRUE],
    [sport |-> "pickleball", setsToWin |-> 2, gamesPerSet |-> 1, tiebreakAt |-> 0,
     finalSetTiebreak |-> FALSE, finalSetTiebreakPoints |-> 0,
     advantageScoring |-> FALSE, pointsPerGame |-> 2,
     winByTwo |-> TRUE, rallyScoring |-> FALSE],
    [sport |-> "pickleball", setsToWin |-> 1, gamesPerSet |-> 1, tiebreakAt |-> 0,
     finalSetTiebreak |-> FALSE, finalSetTiebreakPoints |-> 0,
     advantageScoring |-> FALSE, pointsPerGame |-> 0,
     winByTwo |-> FALSE, rallyScoring |-> TRUE],
    [sport |-> "pickleball", setsToWin |-> 1, gamesPerSet |-> 1, tiebreakAt |-> 0,
     finalSetTiebreak |-> FALSE, finalSetTiebreakPoints |-> 0,
     advantageScoring |-> FALSE, pointsPerGame |-> 3,
     winByTwo |-> FALSE, rallyScoring |-> FALSE] }

Configs == TennisConfigs \cup PickleballConfigs

FixtureId == "f1"

(***************************************************************************)
(* Array helpers used by both engines                                      *)
(***************************************************************************)
\* state.sets.filter(s => s.winner === team).length
SetsWonBy(sets, team) ==
  Cardinality({i \in DOMAIN sets : sets[i].winner = team})
\* ReplaceSet writing the new record over every set
ReplaceSet_all(sets, index, newSet) == [i \in DOMAIN sets |-> newSet]

\* ReplaceSet taking the 0-based index for a position of the sequence
ReplaceSet_offByOne(sets, index, newSet) ==
  [i \in DOMAIN sets |-> IF i = index THEN newSet ELSE sets[i]]

\* state.sets.map((s, i) => (i === index ? newSet : s))
ReplaceSet(sets, index, newSet) ==
  [i \in DOMAIN sets |-> IF i - 1 = index THEN newSet ELSE sets[i]]

\* MatchWon counting the sets of both sides together
MatchWon_total(team1Sets, team2Sets, config) ==
  team1Sets + team2Sets = config.setsToWin

\* team1Sets === config.setsToWin || team2Sets === config.setsToWin
MatchWon(team1Sets, team2Sets, config) ==
  team1Sets = config.setsToWin \/ team2Sets = config.setsToWin

(***************************************************************************)
(* TENNIS SCORING ENGINE (tennis.ts)                                       *)
(***************************************************************************)

\* createInitialSet numbering every set 1
createInitialSet_first(setNumber) ==
  [setNumber |-> 1, team1Games |-> 0, team2Games |-> 0,
   isTiebreak |-> FALSE, tiebreakScore |-> << >>, winner |-> NoTeam]

createInitialSet(setNumber) ==
  [setNumber |-> setNumber, team1Games |-> 0, team2Games |-> 0,
   isTiebreak |-> FALSE, tiebreakScore |-> << >>, winner |-> NoTeam]

tennis_createInitialGame == [team1Points |-> "0", team2Points |-> "0"]

\* TENNIS_POINTS.indexOf(current): 0-based, -1 when absent
IndexOf(current) ==
  IF \E i \in DOMAIN TENNIS_POINTS : TENNIS_POINTS[i] = current
    THEN (CHOOSE i \in DOMAIN TENNIS_POINTS : TENNIS_POINTS[i] = current) - 1
    ELSE -1

\* getNextPoint that leaves the label where it is
getNextPoint_hold(current) == current

\* getNextPoint that goes to 40 from any label
getNextPoint_jump(current) == "40"

\* getNextPoint that skips the label 15
getNextPoint_skip(current) ==
  IF current = "0" THEN "30" ELSE IF current = "30" THEN "40" ELSE current

getNextPoint(current) ==
  LET index == IndexOf(current) IN
  IF index = -1 \/ index >= Len(TENNIS_POINTS) - 1
    THEN current
    ELSE TENNIS_POINTS[(index + 1) + 1]

\* scoreRegularPoint with one of its deuce branches altered:
\*   "swap"   a point against the advantage hands the advantage over
\*   "stay"   a point with the advantage keeps the advantage, no game
\*   "always" the advantage is played whatever the policy says
\*   "both"   a point against the advantage gives the scorer an advantage too
scoreRegularPoint_variant(game, scoringTeam, advantageScoring, variant) ==
  LET scoringKey == IF scoringTeam = 1 THEN "team1Points" ELSE "team2Points"
      otherKey == IF scoringTeam = 1 THEN "team2Points" ELSE "team1Points"
      scoringPoints == game[scoringKey]
      otherPoints == game[otherKey]
  IN
  IF scoringPoints = "40" /\ otherPoints = "40" THEN
    IF advantageScoring \/ variant = "always"
      THEN [newGame |-> [game EXCEPT ![scoringKey] = "AD"], gameWon |-> NoTeam]
      ELSE [newGame |-> tennis_createInitialGame, gameWon |-> scoringTeam]
  ELSE IF scoringPoints = "AD" THEN
    IF variant = "stay"
      THEN [newGame |-> game, gameWon |-> NoTeam]
      ELSE [newGame |-> tennis_createInitialGame, gameWon |-> scoringTeam]
  ELSE IF otherPoints = "AD" THEN
    IF variant = "swap"
      THEN [newGame |-> [game EXCEPT ![scoringKey] = "AD", ![otherKey] = "40"],
            gameWon |-> NoTeam]
    ELSE IF variant = "both"
      THEN [newGame |-> [game EXCEPT ![scoringKey] = "AD"], gameWon |-> NoTeam]
      ELSE [newGame |-> [team1Points |-> "40", team2Points |-> "40"], gameWon |-> NoTeam]
  ELSE IF scoringPoints = "40" THEN
    [newGame |-> tennis_createInitialGame, gameWon |-> scoringTeam]
  ELSE
    [newGame |-> [game EXCEPT ![scoringKey] = getNextPoint(scoringPoints)],
     gameWon |-> NoTeam]

scoreRegularPoint_both(game, scoringTeam, advantageScoring) ==
  scoreRegularPoint_variant(game, scoringTeam, advantageScoring, "both")

scoreRegularPoint_swap(game, scoringTeam, advantageScoring) ==
  scoreRegularPoint_variant(game, scoringTeam, advantageScoring, "swap")

scoreRegularPoint_stay(game, scoringTeam, advantageScoring) ==
  scoreRegularPoint_variant(game, scoringTeam, advantageScoring, "stay")

scoreRegularPoint_always(game, scoringTeam, advantageScoring) ==
  scoreRegularPoint_variant(game, scoringTeam, advantageScoring, "always")

scoreRegularPoint(game, scoringTeam, advantageScoring) ==
  LET scoringKey == IF scoringTeam = 1 THEN "team1Points" ELSE "team2Points"
      otherKey == IF scoringTeam = 1 THEN "team2Points" ELSE "team1Points"
      scoringPoints == game[scoringKey]
      otherPoints == game[otherKey]
  IN
  IF scoringPoints = "40" /\ otherPoints = "40" THEN
    IF advantageScoring
      THEN [newGame |-> [game EXCEPT ![scoringKey] = "AD"], gameWon |-> NoTeam]
      ELSE [newGame |-> tennis_createInitialGame, gameWon |-> scoringTeam]
  ELSE IF scoringPoints = "AD" THEN
    [newGame |-> tennis_createInitialGame, gameWon |-> scoringTeam]
  ELSE IF otherPoints = "AD" THEN
    [newGame |-> [team1Points |-> "40", team2Points |-> "40"], gameWon |-> NoTeam]
  ELSE IF scoringPoints = "40" THEN
    [newGame |-> tennis_createInitialGame, gameWon |-> scoringTeam]
  ELSE
    [newGame |-> [game EXCEPT ![scoringKey] = getNextPoint(scoringPoints)],
     gameWon |-> NoTeam]

\* if (!set.tiebreakScore) throw new Error('Tiebreak score not initialized')
scoreTiebreakPointThrows(set) == set.tiebreakScore = << >>

\* tiebreakTarget that is 7 in every set
tiebreakTarget_seven(set, config) == 7

\* tiebreak target of a set: 7, or the final-set target in the deciding set
tiebreakTarget(set, config) ==
  LET isFinalSet == set.setNumber = config.setsToWin * 2 - 1 IN
  IF isFinalSet /\ config.finalSetTiebreak
    THEN config.finalSetTiebreakPoints
    ELSE 7

\* scoreTiebreakPoint that awards the tiebreak at the target whatever the lead
scoreTiebreakPoint_noLead(set, scoringTeam, config) ==
  LET scoringKey == IF scoringTeam = 1 THEN "team1" ELSE "team2"
      old == set.tiebreakScore[1]
      newScore == [old EXCEPT ![scoringKey] = old[scoringKey] + 1]
  IN
  IF newScore[scoringKey] >= tiebreakTarget(set, config)
    THEN [newSet |-> [set EXCEPT
                        !.tiebreakScore = <<newScore>>,
                        !.team1Games = set.team1Games + (IF scoringTeam = 1 THEN 1 ELSE 0),
                        !.team2Games = set.team2Games + (IF scoringTeam = 2 THEN 1 ELSE 0),
                        !.winner = scoringTeam],
          setWon |-> scoringTeam]
    ELSE [newSet |-> [set EXCEPT !.tiebreakScore = <<newScore>>],
          setWon |-> NoTeam]

\* defined where the tally is initialized (scoreTiebreakPointThrows is false)
scoreTiebreakPoint(set, scoringTeam, config) ==
  LET scoringKey == IF scoringTeam = 1 THEN "team1" ELSE "team2"
      otherKey == IF scoringTeam = 1 THEN "team2" ELSE "team1"
      old == set.tiebreakScore[1]
      newScore == [old EXCEPT ![scoringKey] = old[scoringKey] + 1]
      scoringPoints == newScore[scoringKey]
      otherPoints == newScore[otherKey]
  IN
  IF scoringPoints >= tiebreakTarget(set, config) /\ scoringPoints - otherPoints >= 2
    THEN [newSet |-> [set EXCEPT
                        !.tiebreakScore = <<newScore>>,
                        !.team1Games = set.team1Games + (IF scoringTeam = 1 THEN 1 ELSE 0),
                        !.team2Games = set.team2Games + (IF scoringTeam = 2 THEN 1 ELSE 0),
                        !.winner = scoringTeam],
          setWon |-> scoringTeam]
    ELSE [newSet |-> [set EXCEPT !.tiebreakScore = <<newScore>>],
          setWon |-> NoTeam]

\* checkSetWon without the two-game lead
checkSetWon_noLead(set, config) ==
  IF set.isTiebreak THEN NoTeam
  ELSE IF set.team1Games >= config.gamesPerSet /\ set.team1Games > set.team2Games THEN 1
  ELSE IF set.team2Games >= config.gamesPerSet /\ set.team2Games > set.team1Games THEN 2
  ELSE NoTeam

checkSetWon(set, config) ==
  LET team1Games == set.team1Games
      team2Games == set.team2Games
      gamesPerSet == config.gamesPerSet
  IN
  IF set.isTiebreak THEN NoTeam
  ELSE IF team1Games >= gamesPerSet /\ team1Games - team2Games >= 2 THEN 1
  ELSE IF team2Games >= gamesPerSet /\ team2Games - team1Games >= 2 THEN 2
  ELSE IF team1Games = gamesPerSet + 1 /\ team2Games = gamesPerSet - 1 THEN 1
  ELSE IF team2Games = gamesPerSet + 1 /\ team1Games = gamesPerSet - 1 THEN 2
  ELSE NoTeam

\* shouldStartTiebreak starting a tiebreak whenever the games are level at or
\* past the threshold
shouldStartTiebreak_level(set, config) ==
  /\ set.team1Games = set.team2Games
  /\ set.team1Games >= config.tiebreakAt
  /\ ~set.isTiebreak

\* shouldStartTiebreak reading the set threshold in place of the tiebreak one
shouldStartTiebreak_atGamesPerSet(set, config) ==
  /\ set.team1Games = config.gamesPerSet
  /\ set.team2Games = config.gamesPerSet
  /\ ~set.isTiebreak

shouldStartTiebreak(set, config) ==
  /\ set.team1Games = config.tiebreakAt
  /\ set.team2Games = config.tiebreakAt
  /\ ~set.isTiebreak

updateServerAfterGame(currentServer) == IF currentServer = 1 THEN 2 ELSE 1

\* updateServerInTiebreak that changes server after the even-numbered points
updateServerInTiebreak_even(currentServer, totalPoints) ==
  IF totalPoints = 0 THEN currentServer
  ELSE IF totalPoints % 2 = 0 THEN (IF currentServer = 1 THEN 2 ELSE 1)
  ELSE currentServer

updateServerInTiebreak(currentServer, totalPoints) ==
  IF totalPoints = 0 THEN currentServer
  ELSE IF totalPoints = 1 THEN (IF currentServer = 1 THEN 2 ELSE 1)
  ELSE IF (totalPoints - 1) % 2 = 0 THEN (IF currentServer = 1 THEN 2 ELSE 1)
  ELSE currentServer

\* scorePoint, tiebreak branch (tennis.ts, `if (currentSet.isTiebreak)`)
tennis_scoreInTiebreak(state, scoringTeam) ==
  LET currentSet == state.sets[state.currentSetIndex + 1]
      r == scoreTiebreakPoint(currentSet, scoringTeam, state.config)
      newSet == r.newSet
      setWon == r.setWon
      totalTiebreakPoints ==
        IF newSet.tiebreakScore # << >>
          THEN newSet.tiebreakScore[1].team1 + newSet.tiebreakScore[1].team2
          ELSE 0
      team1Sets == SetsWonBy(state.sets, 1) + (IF setWon = 1 THEN 1 ELSE 0)
      team2Sets == SetsWonBy(state.sets, 2) + (IF setWon = 2 THEN 1 ELSE 0)
  IN
  IF setWon # NoTeam THEN
    IF MatchWon(team1Sets, team2Sets, state.config)
      THEN [state EXCEPT
              !.sets = ReplaceSet(state.sets, state.currentSetIndex, newSet),
              !.matchWinner = setWon,
              !.isComplete = TRUE]
      ELSE [state EXCEPT
              !.sets = Append(ReplaceSet(state.sets, state.currentSetIndex, newSet),
                              createInitialSet(state.currentSetIndex + 2)),
              !.currentSetIndex = state.currentSetIndex + 1,
              !.currentGame = tennis_createInitialGame,
              !.servingTeam = updateServerAfterGame(state.servingTeam)]
  ELSE [state EXCEPT
          !.sets = ReplaceSet(state.sets, state.currentSetIndex, newSet),
          !.servingTeam = updateServerInTiebreak(state.servingTeam, totalTiebreakPoints)]

\* a set put in tiebreak mode without a tally
startTiebreak_noTally(set) == [set EXCEPT !.isTiebreak = TRUE]

\* the set record scorePoint stores when a tiebreak starts: the tiebreak
\* flag set and the tally initialised to 0-0
startTiebreak(set) ==
  [set EXCEPT !.isTiebreak = TRUE,
              !.tiebreakScore = <<[team1 |-> 0, team2 |-> 0]>>]

\* scorePoint, the part after a game was won (tennis.ts, "Game was won")
tennis_gameWon(state, newGame, gameWon) ==
  LET currentSet == state.sets[state.currentSetIndex + 1]
      updatedSet == [currentSet EXCEPT
                       !.team1Games = currentSet.team1Games + (IF gameWon = 1 THEN 1 ELSE 0),
                       !.team2Games = currentSet.team2Games + (IF gameWon = 2 THEN 1 ELSE 0)]
      setWinner == checkSetWon(updatedSet, state.config)
      finalSet == [updatedSet EXCEPT !.winner = setWinner]
      team1Sets == SetsWonBy(state.sets, 1) + (IF setWinner = 1 THEN 1 ELSE 0)
      team2Sets == SetsWonBy(state.sets, 2) + (IF setWinner = 2 THEN 1 ELSE 0)
  IN
  IF shouldStartTiebreak(updatedSet, state.config) THEN
    [state EXCEPT
       !.sets = ReplaceSet(state.sets, state.currentSetIndex,
                           startTiebreak(updatedSet)),
       !.currentGame = tennis_createInitialGame,
       !.servingTeam = updateServerAfterGame(state.servingTeam)]
  ELSE IF setWinner # NoTeam THEN
    IF MatchWon(team1Sets, team2Sets, state.config)
      THEN [state EXCEPT
              !.sets = ReplaceSet(state.sets, state.currentSetIndex, finalSet),
              !.currentGame = newGame,
              !.matchWinner = setWinner,
              !.isComplete = TRUE]
      ELSE [state EXCEPT
              !.sets = Append(ReplaceSet(state.sets, state.currentSetIndex, finalSet),
                              createInitialSet(state.currentSetIndex + 2)),
              !.currentSetIndex = state.currentSetIndex + 1,
              !.currentGame = tennis_createInitialGame,
              !.servingTeam = updateServerAfterGame(state.servingTeam)]
  ELSE
    [state EXCEPT
       !.sets = ReplaceSet(state.sets, state.currentSetIndex, updatedSet),
       !.currentGame = newGame,
       !.servingTeam = updateServerAfterGame(state.servingTeam)]

\* scorePoint past the isComplete check
tennis_scoreLive(state, scoringTeam) ==
  LET currentSet == state.sets[state.currentSetIndex + 1]
      r == scoreRegularPoint(state.currentGame, scoringTeam,
                             state.config.advantageScoring)
  IN
  IF currentSet.isTiebreak THEN tennis_scoreInTiebreak(state, scoringTeam)
  ELSE IF r.gameWon = NoTeam THEN [state EXCEPT !.currentGame = r.newGame]
  ELSE tennis_gameWon(state, r.newGame, r.gameWon)

\* tennis scorePoint without its isComplete check
tennis_scorePoint_unguarded(state, scoringTeam) ==
  tennis_scoreLive(state, scoringTeam)

tennis_scorePoint(state, scoringTeam) ==
  IF state.isComplete THEN state ELSE tennis_scoreLive(state, scoringTeam)

\* the one throw of the tennis engine
tennis_scorePointThrows(state) ==
  /\ ~state.isComplete
  /\ state.sets[state.currentSetIndex + 1].isTiebreak
  /\ scoreTiebreakPointThrows(state.sets[state.currentSetIndex + 1])

tennis_createInitialState(fixtureId, config, servingTeam) ==
  [fixtureId |-> fixtureId, config |-> config,
   sets |-> <<createInitialSet(1)>>, currentSetIndex |-> 0,
   currentGame |-> tennis_createInitialGame, servingTeam |-> servingTeam,
   matchWinner |-> NoTeam, isComplete |-> FALSE]

(***************************************************************************)
(* PICKLEBALL SCORING ENGINE (pickleball.ts)                               *)
(***************************************************************************)
pickleball_createInitialGame ==
  [team1Points |-> 0, team2Points |-> 0, serverNumber |-> 1]

\* config.pointsPerGame || 11
pointsToWin(config) == IF config.pointsPerGame = 0 THEN 11 ELSE config.pointsPerGame

\* pickleball_sideOut that hands the serve over whatever the server slot
pickleball_sideOut_pass(state) ==
  [state EXCEPT
     !.currentGame = [state.currentGame EXCEPT !.serverNumber = 1],
     !.servingTeam = IF state.servingTeam = 1 THEN 2 ELSE 1]

\* side-out branch: the receiving side won the rally
pickleball_sideOut(state) ==
  LET game == state.currentGame
      newServerNumber == IF game.serverNumber = 1 THEN 2 ELSE 1
      newServingTeam ==
        IF game.serverNumber = 1 THEN state.servingTeam
        ELSE (IF state.servingTeam = 1 THEN 2 ELSE 1)
  IN [state EXCEPT
        !.currentGame = [game EXCEPT !.serverNumber = newServerNumber],
        !.servingTeam = newServingTeam]

\* pickleball_gameIsWon that awards the game at the target whatever the lead
pickleball_gameIsWon_noLead(newPoints, otherPoints, config) ==
  newPoints >= pointsToWin(config)

\* hasEnoughPoints && hasRequiredLead
pickleball_gameIsWon(newPoints, otherPoints, config) ==
  LET hasEnoughPoints == newPoints >= pointsToWin(config)
      hasRequiredLead == IF config.winByTwo THEN newPoints - otherPoints >= 2
                         ELSE newPoints > otherPoints
  IN hasEnoughPoints /\ hasRequiredLead

\* pickleball_gameWon that names the match winner without completing the match
pickleball_gameWon_noComplete(state, scoringTeam, scoringKey, newPoints) ==
  LET game == state.currentGame
      currentSet == state.sets[state.currentSetIndex + 1]
      updatedSet == [currentSet EXCEPT
                       !.team1Games = currentSet.team1Games + (IF scoringTeam = 1 THEN 1 ELSE 0),
                       !.team2Games = currentSet.team2Games + (IF scoringTeam = 2 THEN 1 ELSE 0),
                       !.winner = scoringTeam]
      team1Games == SetsWonBy(state.sets, 1) + (IF scoringTeam = 1 THEN 1 ELSE 0)
      team2Games == SetsWonBy(state.sets, 2) + (IF scoringTeam = 2 THEN 1 ELSE 0)
  IN
  IF MatchWon(team1Games, team2Games, state.config)
    THEN [state EXCEPT
            !.sets = ReplaceSet(state.sets, state.currentSetIndex, updatedSet),
            !.currentGame = [game EXCEPT ![scoringKey] = newPoints],
            !.matchWinner = scoringTeam]
    ELSE [state EXCEPT
            !.sets = Append(ReplaceSet(state.sets, state.currentSetIndex, updatedSet),
                            createInitialSet(state.currentSetIndex + 2)),
            !.currentSetIndex = state.currentSetIndex + 1,
            !.currentGame = pickleball_createInitialGame,
            !.servingTeam = IF scoringTeam = 1 THEN 2 ELSE 1]

\* pickleball_gameWon where the winner of the game serves the next one
pickleball_gameWon_winnerServes(state, scoringTeam, scoringKey, newPoints) ==
  LET game == state.currentGame
      currentSet == state.sets[state.currentSetIndex + 1]
      updatedSet == [currentSet EXCEPT
                       !.team1Games = currentSet.team1Games + (IF scoringTeam = 1 THEN 1 ELSE 0),
                       !.team2Games = currentSet.team2Games + (IF scoringTeam = 2 THEN 1 ELSE 0),
                       !.winner = scoringTeam]
      team1Games == SetsWonBy(state.sets, 1) + (IF scoringTeam = 1 THEN 1 ELSE 0)
      team2Games == SetsWonBy(state.sets, 2) + (IF scoringTeam = 2 THEN 1 ELSE 0)
  IN
  IF MatchWon(team1Games, team2Games, state.config)
    THEN [state EXCEPT
            !.sets = ReplaceSet(state.sets, state.currentSetIndex, updatedSet),
            !.currentGame = [game EXCEPT ![scoringKey] = newPoints],
            !.matchWinner = scoringTeam,
            !.isComplete = TRUE]
    ELSE [state EXCEPT
            !.sets = Append(ReplaceSet(state.sets, state.currentSetIndex, updatedSet),
                            createInitialSet(state.currentSetIndex + 2)),
            !.currentSetIndex = state.currentSetIndex + 1,
            !.currentGame = pickleball_createInitialGame,
            !.servingTeam = scoringTeam]

\* "Game (set) won" branch
pickleball_gameWon(state, scoringTeam, scoringKey, newPoints) ==
  LET game == state.currentGame
      currentSet == state.sets[state.currentSetIndex + 1]
      updatedSet == [currentSet EXCEPT
                       !.team1Games = currentSet.team1Games + (IF scoringTeam = 1 THEN 1 ELSE 0),
                       !.team2Games = currentSet.team2Games + (IF scoringTeam = 2 THEN 1 ELSE 0),
                       !.winner = scoringTeam]
      team1Games == SetsWonBy(state.sets, 1) + (IF scoringTeam = 1 THEN 1 ELSE 0)
      team2Games == SetsWonBy(state.sets, 2) + (IF scoringTeam = 2 THEN 1 ELSE 0)
  IN
  IF MatchWon(team1Games, team2Games, state.config)
    THEN [state EXCEPT
            !.sets = ReplaceSet(state.sets, state.currentSetIndex, updatedSet),
            !.currentGame = [game EXCEPT ![scoringKey] = newPoints],
            !.matchWinner = scoringTeam,
            !.isComplete = TRUE]
    ELSE [state EXCEPT
            !.sets = Append(ReplaceSet(state.sets, state.currentSetIndex, updatedSet),
                            createInitialSet(state.currentSetIndex + 2)),
            !.currentSetIndex = state.currentSetIndex + 1,
            !.currentGame = pickleball_createInitialGame,
            !.servingTeam = IF scoringTeam = 1 THEN 2 ELSE 1]

\* pickleball_nextServer that never hands the serve to the scorer
pickleball_nextServer_keep(state, scoringTeam) == state.servingTeam

\* "Continue game" branch: the serving side after a point that does not end the game
pickleball_nextServer(state, scoringTeam) ==
  IF state.config.rallyScoring THEN scoringTeam ELSE state.servingTeam

\* scorePoint past the isComplete check
pickleball_scoreLive(state, scoringTeam) ==
  LET game == state.currentGame
      config == state.config
      scoringKey == IF scoringTeam = 1 THEN "team1Points" ELSE "team2Points"
      otherKey == IF scoringTeam = 1 THEN "team2Points" ELSE "team1Points"
      newPoints == game[scoringKey] + 1
      otherPoints == game[otherKey]
  IN
  IF ~config.rallyScoring /\ scoringTeam # state.servingTeam
    THEN pickleball_sideOut(state)
  ELSE IF pickleball_gameIsWon(newPoints, otherPoints, config)
    THEN pickleball_gameWon(state, scoringTeam, scoringKey, newPoints)
  ELSE [state EXCEPT
          !.currentGame = [game EXCEPT ![scoringKey] = newPoints],
          !.servingTeam = pickleball_nextServer(state, scoringTeam)]

pickleball_scorePoint(state, scoringTeam) ==
  IF state.isComplete THEN state ELSE pickleball_scoreLive(state, scoringTeam)

pickleball_createInitialState(fixtureId, config, servingTeam) ==
  [fixtureId |-> fixtureId, config |-> config,
   sets |-> <<createInitialSet(1)>>, currentSetIndex |-> 0,
   currentGame |-> pickleball_createInitialGame, servingTeam |-> servingTeam,
   matchWinner |-> NoTeam, isComplete |-> FALSE]

(***************************************************************************)
(* undoLastPoint (the same code in tennis.ts and pickleball.ts)            *)
(***************************************************************************)
\* undoLastPoint that returns no state for an empty event list
undoLastPoint_null(state, events) ==
  IF Len(events) = 0 THEN << >>
  ELSE LET previousEvent == events[Len(events)] IN previousEvent.scoreSnapshot

undoLastPoint(state, events) ==
  IF Len(events) = 0 THEN state
  ELSE LET previousEvent == events[Len(events)] IN previousEvent.scoreSnapshot

(***************************************************************************)
(* ENGINE REGISTRY (engine/index.ts)                                       *)
(***************************************************************************)
scorers ==
  [sport \in SportType |->
     CASE sport = "tennis" -> "tennisScorer"
       [] sport = "pickleball" -> "pickleballScorer"
       [] sport = "badminton" -> "tennisScorer"
       [] sport = "padel" -> "tennisScorer"]

\* getScorer that falls back to the pickleball engine
getScorer_pickleballFallback(sport) ==
  IF sport = "tennis" THEN "tennisScorer" ELSE "pickleballScorer"

getScorer(sport) == scorers[sport]

\* scorer.scorePoint(state, scoringTeam)
scorePoint(scorer, state, scoringTeam) ==
  IF scorer = "tennisScorer" THEN tennis_scorePoint(state, scoringTeam)
  ELSE pickleball_scorePoint(state, scoringTeam)

\* scorer.createInitialState(fixtureId, config, servingTeam)
createInitialState(scorer, fixtureId, config, servingTeam) ==
  IF scorer = "tennisScorer"
    THEN tennis_createInitialState(fixtureId, config, servingTeam)
    ELSE pickleball_createInitialState(fixtureId, config, servingTeam)

(***************************************************************************)
(* State                                                                   *)
(***************************************************************************)
VARIABLES
  state,      \* the MatchState an engine caller holds
  pre,        \* the MatchState passed to the last engine call
  lastTeam,   \* the scoringTeam of the last engine call
  op,         \* the last operation: "init", "score", "undo", "undo1"
  initial,    \* the MatchState the match started from
  history,    \* the caller's ordered events, each carrying a snapshot
  undone,     \* << >> or <<the result of the last undoLastPoint call>>
  tournament,     \* the fixture's tournament: sport and scoring_config
  score_events,   \* table score_events of the fixture, ordered by recorded_at
  match_scores,   \* the fixture's row of table match_scores
  fixture_status, \* fixtures.status of the fixture
  is_winner,      \* fixture_teams.is_winner by team_position
  cache,      \* per scorer: the data of useScoreEvents and useFixture
  pc,         \* per scorer: the await a running mutation stands at, or "idle"
  mut,        \* per scorer: the locals and the outcome of its last mutation
  last        \* the last completed mutation of a scorer working alone

engineVars == <<state, pre, lastTeam, op, history, undone>>

dbVars == <<tournament, score_events, match_scores, fixture_status, is_winner>>

hookVars == <<tournament, score_events, match_scores, fixture_status, is_winner, cache, pc, mut, last>>

vars == <<state, pre, lastTeam, op, initial, history, undone,
          tournament, score_events, match_scores, fixture_status, is_winner, cache, pc, mut, last>>

\* The open-ended counts of a state stay within MaxOver of their targets.
WithinBounds(s) ==
  /\ \A i \in DOMAIN s.sets :
       /\ s.sets[i].team1Games <= s.config.gamesPerSet + MaxOver
       /\ s.sets[i].team2Games <= s.config.gamesPerSet + MaxOver
       /\ s.sets[i].tiebreakScore # << >> =>
            /\ s.sets[i].tiebreakScore[1].team1 <= tiebreakTarget(s.sets[i], s.config) + MaxOver
            /\ s.sets[i].tiebreakScore[1].team2 <= tiebreakTarget(s.sets[i], s.config) + MaxOver
  /\ getScorer(s.config.sport) = "pickleballScorer" =>
       /\ s.currentGame.team1Points <= pointsToWin(s.config) + MaxOver
       /\ s.currentGame.team2Points <= pointsToWin(s.config) + MaxOver

(***************************************************************************)
(* Spec: the engines driven point by point from createInitialState         *)
(***************************************************************************)
\* the tables and the scorers play no part in the engine specifications
HooksUnused ==
  /\ tournament = << >>
  /\ score_events = << >>
  /\ match_scores = << >>
  /\ fixture_status = "scheduled"
  /\ is_winner = << >>
  /\ cache = << >>
  /\ pc = << >>
  /\ mut = << >>
  /\ last = << >>

Init ==
  /\ \E config \in Configs, servingTeam \in Team :
       state = createInitialState(getScorer(config.sport), FixtureId, config, servingTeam)
  /\ pre = state
  /\ lastTeam = NoTeam
  /\ op = "init"
  /\ initial = state
  /\ history = << >>
  /\ undone = << >>
  /\ HooksUnused

\* tennisScorer.scorePoint(state, scoringTeam)
TennisPoint(scoringTeam) ==
  /\ getScorer(state.config.sport) = "tennisScorer"
  /\ ~tennis_scorePointThrows(state)
  /\ WithinBounds(tennis_scorePoint(state, scoringTeam))
  /\ state' = tennis_scorePoint(state, scoringTeam)
  /\ pre' = state
  /\ lastTeam' = scoringTeam
  /\ op' = "score"
  /\ UNCHANGED <<initial, history, undone, hookVars>>

\* pickleballScorer.scorePoint(state, scoringTeam)
PickleballPoint(scoringTeam) ==
  /\ getScorer(state.config.sport) = "pickleballScorer"
  /\ WithinBounds(pickleball_scorePoint(state, scoringTeam))
  /\ state' = pickleball_scorePoint(state, scoringTeam)
  /\ pre' = state
  /\ lastTeam' = scoringTeam
  /\ op' = "score"
  /\ UNCHANGED <<initial, history, undone, hookVars>>

Next ==
  \/ \E scoringTeam \in Team : TennisPoint(scoringTeam)
  \/ \E scoringTeam \in Team : PickleballPoint(scoringTeam)

Spec == Init /\ [][Next]_vars

(***************************************************************************)
(* SpecUndo: a caller that keeps the ordered event history of a match,     *)
(* each event carrying the snapshot taken after it (ScoreEvent), and calls *)
(* undoLastPoint on it                                                     *)
(***************************************************************************)
\* a ScoreEvent of a scored point: the snapshot is the state after the point
ScoreEvent(scoringTeam, newState) ==
  [eventType |-> "point_scored", scoringTeam |-> scoringTeam,
   scoreSnapshot |-> newState]

\* scorer.scorePoint, with the resulting event appended to the history
RecordPoint(scoringTeam) ==
  /\ Len(history) < MaxHistory
  /\ LET newState == scorePoint(getScorer(state.config.sport), state, scoringTeam) IN
       /\ state' = newState
       /\ history' = Append(history, ScoreEvent(scoringTeam, newState))
  /\ pre' = state
  /\ lastTeam' = scoringTeam
  /\ op' = "score"
  /\ undone' = << >>
  /\ UNCHANGED <<initial, hookVars>>

\* scorer.undoLastPoint(state, events) on the whole history
UndoLastPointCall ==
  /\ op # "undo"
  /\ undone' = <<undoLastPoint(state, history)>>
  /\ op' = "undo"
  /\ UNCHANGED <<state, pre, lastTeam, initial, history, hookVars>>

\* scorer.undoLastPoint(state, [event]) on the single event just recorded
UndoSingleEventCall ==
  /\ op = "score"
  /\ undone' = <<undoLastPoint(state, <<history[Len(history)]>>)>>
  /\ op' = "undo1"
  /\ UNCHANGED <<state, pre, lastTeam, initial, history, hookVars>>

\* scorer.undoLastPoint(state, []) with an empty event list, on any state
UndoEmptyCall ==
  /\ op # "undoEmpty"
  /\ undone' = <<undoLastPoint(state, << >>)>>
  /\ op' = "undoEmpty"
  /\ UNCHANGED <<state, pre, lastTeam, initial, history, hookVars>>

NextUndo ==
  \/ \E scoringTeam \in Team : RecordPoint(scoringTeam)
  \/ UndoLastPointCall
  \/ UndoSingleEventCall
  \/ UndoEmptyCall

SpecUndo == Init /\ [][NextUndo]_vars

(***************************************************************************)
(* SCORING HOOKS (useScoring.ts) over the tables match_scores,             *)
(* score_events, fixtures and fixture_teams                                *)
(***************************************************************************)
Scorers == {"s1", "s2"}

\* policies of the two-scorer specification
ConcConfigs ==
  { [sport |-> "tennis", setsToWin |-> 1, gamesPerSet |-> 2, tiebreakAt |-> 0,
     finalSetTiebreak |-> FALSE, finalSetTiebreakPoints |-> 0,
     advantageScoring |-> TRUE, pointsPerGame |-> 0,
     winByTwo |-> TRUE, rallyScoring |-> FALSE],
    [sport |-> "pickleball", setsToWin |-> 1, gamesPerSet |-> 1, tiebreakAt |-> 0,
     finalSetTiebreak |-> FALSE, finalSetTiebreakPoints |-> 0,
     advantageScoring |-> FALSE, pointsPerGame |-> 2,
     winByTwo |-> FALSE, rallyScoring |-> TRUE] }

\* String(newState.currentGame.team1Points): a tennis label is a string
\* already, a pickleball tally is a number
String(scorer, points) ==
  IF scorer = "tennisScorer" THEN points ELSE ToString(points)

\* the columns written by .from('match_scores').update({...}) for a state
MatchScoresUpdate(s) ==
  [team1_sets_won |-> SetsWonBy(s.sets, 1),
   team2_sets_won |-> SetsWonBy(s.sets, 2),
   current_set_number |-> s.currentSetIndex + 1,
   current_game_team1 |-> s.sets[s.currentSetIndex + 1].team1Games,
   current_game_team2 |-> s.sets[s.currentSetIndex + 1].team2Games,
   current_point_team1 |-> String(getScorer(s.config.sport), s.currentGame.team1Points),
   current_point_team2 |-> String(getScorer(s.config.sport), s.currentGame.team2Points),
   serving_team |-> s.servingTeam]

\* the row the on_fixture_created trigger inserts: column defaults, serving_team 1
NewMatchScores ==
  [team1_sets_won |-> 0, team2_sets_won |-> 0, current_set_number |-> 1,
   current_game_team1 |-> 0, current_game_team2 |-> 0,
   current_point_team1 |-> "0", current_point_team2 |-> "0",
   serving_team |-> 1]

\* ids of events in the table or still held by a scorer
UsedIds ==
  {score_events[i].id : i \in DOMAIN score_events}
    \cup UNION {{cache[c].events[i].id : i \in DOMAIN cache[c].events} : c \in Scorers}
    \cup {mut[c].lastEventId : c \in {x \in Scorers : mut[x].kind = "undo" /\ pc[x] # "idle"}}

\* uuid_generate_v4(): an id that no event has (the least one, ids being opaque)
FreshId ==
  CHOOSE id \in 1..(Cardinality(UsedIds) + 1) :
    id \notin UsedIds /\ \A j \in 1..(id - 1) : j \in UsedIds

\* buildMatchState that takes the snapshot of the first event of the log
buildMatchState_first(fixtureData, events, fixtureId) ==
  LET scorer == getScorer(fixtureData.tournament.sport) IN
  IF Len(events) > 0 THEN events[1].scoreSnapshot
  ELSE createInitialState(scorer, fixtureId, fixtureData.tournament.scoringConfig, 1)

\* useMatchState: buildMatchState
buildMatchState(fixtureData, events, fixtureId) ==
  LET scorer == getScorer(fixtureData.tournament.sport) IN
  IF Len(events) > 0 THEN events[Len(events)].scoreSnapshot
  ELSE IF fixtureData.matchScore = << >>
    THEN createInitialState(scorer, fixtureId, fixtureData.tournament.scoringConfig, 1)
  ELSE createInitialState(scorer, fixtureId, fixtureData.tournament.scoringConfig,
                          IF fixtureData.matchScore[1].serving_team = NoTeam THEN 1
                          ELSE fixtureData.matchScore[1].serving_team)

\* the matchState a scorer's page renders and passes to the mutations
useMatchState(c) ==
  buildMatchState(cache[c].fixtureData, cache[c].events, FixtureId)

\* useFixture's queryFn on the tables as they are
FetchedFixture(t, ms) == [tournament |-> t, matchScore |-> <<ms>>]

\* useScorePoint mutationFn: its parameters and newState
ScoreLocals(currentState, scoringTeam) ==
  [kind |-> "score", scoringTeam |-> scoringTeam, currentState |-> currentState,
   newState |-> scorePoint(getScorer(currentState.config.sport), currentState, scoringTeam)]

\* .from('score_events').insert({...})
InsertScoreEvent(events, id, m) ==
  Append(events, [id |-> id, eventType |-> "point_scored",
                  scoringTeam |-> m.scoringTeam, scoreSnapshot |-> m.newState])

\* "Update fixture status if match started"
MatchJustStarted(m) ==
  m.currentState.sets[1].team1Games = 0 /\ m.currentState.sets[1].team2Games = 0

\* fixture status and winner flag written by a score mutation after its insert
FixtureAfterScore(status, m) ==
  IF m.newState.isComplete THEN "completed"
  ELSE IF MatchJustStarted(m) THEN "in_progress"
  ELSE status

WinnerAfterScore(flags, m) ==
  IF m.newState.isComplete /\ m.newState.matchWinner # NoTeam
    THEN [flags EXCEPT ![m.newState.matchWinner] = TRUE]
    ELSE flags

\* useUndoPoint mutationFn: lastEvent and previousState (<< >> for null)
UndoLocals(events) ==
  [kind |-> "undo", lastEventId |-> events[Len(events)].id,
   previousState |-> IF Len(events) > 1
                       THEN <<events[Len(events) - 1].scoreSnapshot>>
                       ELSE << >>]

\* .from('score_events').delete().eq('id', lastEvent.id)
DeleteScoreEvent(events, id) == SelectSeq(events, LAMBDA e : e.id # id)

\* match_scores after the undo's restore (untouched when previousState is null)
MatchScoresAfterUndo(row, m) ==
  IF m.previousState # << >> THEN MatchScoresUpdate(m.previousState[1]) ELSE row

NoMutation == [kind |-> "none", status |-> "idle", wrote |-> {}, n |-> 0]

InitHooks(configs) ==
  /\ \E config \in configs : tournament = [sport |-> config.sport, scoringConfig |-> config]
  /\ score_events = << >>
  /\ match_scores = NewMatchScores
  /\ fixture_status = "scheduled"
  /\ is_winner = [t \in Team |-> FALSE]
  /\ cache = [c \in Scorers |->
                [fixtureData |-> FetchedFixture(tournament, match_scores), events |-> << >>]]
  /\ pc = [c \in Scorers |-> "idle"]
  /\ mut = [c \in Scorers |-> NoMutation]
  /\ last = [op |-> "init"]
  /\ initial = useMatchState("s1")
  /\ state = << >>
  /\ pre = << >>
  /\ lastTeam = NoTeam
  /\ op = "init"
  /\ history = << >>
  /\ undone = << >>

(***************************************************************************)
(* SpecHooks: one scorer, no failing request; a mutation runs to its end   *)
(* and its onSuccess refetch completes before the next one starts          *)
(***************************************************************************)
\* useScorePoint().mutate({fixtureId, scoringTeam, currentState: matchState})
ScorePointAlone(scoringTeam) ==
  /\ Len(score_events) < MaxEvents
  /\ LET m == ScoreLocals(useMatchState("s1"), scoringTeam) IN
       /\ match_scores' = MatchScoresUpdate(m.newState)
       /\ score_events' = InsertScoreEvent(score_events, FreshId, m)
       /\ fixture_status' = FixtureAfterScore(fixture_status, m)
       /\ is_winner' = WinnerAfterScore(is_winner, m)
       /\ last' = [op |-> "score", error |-> "", scoringTeam |-> scoringTeam,
                   events |-> score_events, view |-> m.currentState]
  /\ cache' = [cache EXCEPT !["s1"] =
                 [fixtureData |-> FetchedFixture(tournament, match_scores'),
                  events |-> score_events']]
  /\ UNCHANGED <<tournament, pc, mut, initial, engineVars>>

\* useUndoPoint().mutate({fixtureId, events}) with at least one event
UndoPointAlone ==
  /\ Len(cache["s1"].events) > 0
  /\ LET m == UndoLocals(cache["s1"].events) IN
       /\ score_events' = DeleteScoreEvent(score_events, m.lastEventId)
       /\ match_scores' = MatchScoresAfterUndo(match_scores, m)
       /\ last' = [op |-> "undo", error |-> "", scoringTeam |-> NoTeam,
                   events |-> score_events, view |-> useMatchState("s1")]
  /\ cache' = [cache EXCEPT !["s1"] =
                 [fixtureData |-> FetchedFixture(tournament, match_scores'),
                  events |-> score_events']]
  /\ UNCHANGED <<tournament, fixture_status, is_winner, pc, mut, initial, engineVars>>

\* useUndoPoint().mutate({fixtureId, events: []}): throws 'No events to undo'
UndoPointAloneEmpty ==
  /\ Len(cache["s1"].events) = 0
  /\ last.op # "undo"
  /\ last' = [op |-> "undo", error |-> "No events to undo", scoringTeam |-> NoTeam,
              events |-> score_events, view |-> useMatchState("s1")]
  /\ UNCHANGED <<dbVars, cache, pc, mut, initial, engineVars>>

NextHooks ==
  \/ \E scoringTeam \in Team : ScorePointAlone(scoringTeam)
  \/ UndoPointAlone
  \/ UndoPointAloneEmpty

SpecHooks == InitHooks(Configs) /\ [][NextHooks]_vars

(***************************************************************************)
(* SpecConc: two scorers on the same fixture.  Each await of a mutation is *)
(* a step of its own, a request may fail, and the queries of a scorer      *)
(* refetch at any time between its mutations                               *)
(***************************************************************************)
\* score mutations that have started and not yet inserted their event
ScoresInFlight ==
  Cardinality({c \in Scorers : pc[c] \in {"update", "insert"}})

\* the mutation record once mutationFn has returned or thrown
Settled(m, status) ==
  [kind |-> m.kind, status |-> status, wrote |-> m.wrote, n |-> m.n]

\* mutations started so far by the two scorers
MutationsBegun == mut["s1"].n + mut["s2"].n

\* useScoreEvents refetches (invalidateQueries, or the realtime subscription)
FetchEvents(c) ==
  /\ pc[c] = "idle"
  /\ cache[c].events # score_events
  /\ cache' = [cache EXCEPT ![c].events = score_events]
  /\ UNCHANGED <<dbVars, pc, mut, last, initial, engineVars>>

\* useFixture refetches
FetchFixture(c) ==
  /\ pc[c] = "idle"
  /\ cache[c].fixtureData # FetchedFixture(tournament, match_scores)
  /\ cache' = [cache EXCEPT ![c].fixtureData = FetchedFixture(tournament, match_scores)]
  /\ UNCHANGED <<dbVars, pc, mut, last, initial, engineVars>>

\* scorePoint.mutate: mutationFn computes newState and issues the update
ScoreBegin(c, scoringTeam) ==
  /\ pc[c] = "idle"
  /\ Len(score_events) + ScoresInFlight < MaxConcEvents
  /\ MutationsBegun < MaxMutations
  /\ mut' = [mut EXCEPT ![c] =
               [kind |-> "score", status |-> "pending", wrote |-> {}, n |-> mut[c].n + 1,
                locals |-> ScoreLocals(useMatchState(c), scoringTeam)]]
  /\ pc' = [pc EXCEPT ![c] = "update"]
  /\ UNCHANGED <<dbVars, cache, last, initial, engineVars>>

\* await match_scores update: applied
ScoreUpdate(c) ==
  /\ pc[c] = "update"
  /\ match_scores' = MatchScoresUpdate(mut[c].locals.newState)
  /\ mut' = [mut EXCEPT ![c].wrote = @ \cup {"match_scores"}]
  /\ pc' = [pc EXCEPT ![c] = "insert"]
  /\ UNCHANGED <<tournament, score_events, fixture_status, is_winner,
                 cache, last, initial, engineVars>>

\* await match_scores update: scoreError, mutationFn throws
ScoreUpdateFails(c) ==
  /\ pc[c] = "update"
  /\ mut' = [mut EXCEPT ![c] = Settled(mut[c], "error")]
  /\ pc' = [pc EXCEPT ![c] = "idle"]
  /\ UNCHANGED <<dbVars, cache, last, initial, engineVars>>

\* await score_events insert: applied
ScoreInsert(c) ==
  /\ pc[c] = "insert"
  /\ score_events' = InsertScoreEvent(score_events, FreshId, mut[c].locals)
  /\ mut' = [mut EXCEPT ![c].wrote = @ \cup {"score_events"}]
  /\ pc' = [pc EXCEPT ![c] = "fixture"]
  /\ UNCHANGED <<tournament, match_scores, fixture_status, is_winner,
                 cache, last, initial, engineVars>>

\* await score_events insert: eventError, mutationFn throws
ScoreInsertFails(c) ==
  /\ pc[c] = "insert"
  /\ mut' = [mut EXCEPT ![c] = Settled(mut[c], "error")]
  /\ pc' = [pc EXCEPT ![c] = "idle"]
  /\ UNCHANGED <<dbVars, cache, last, initial, engineVars>>

\* the fixtures / fixture_teams updates after the insert; mutationFn returns
ScoreFixture(c) ==
  /\ pc[c] = "fixture"
  /\ fixture_status' = FixtureAfterScore(fixture_status, mut[c].locals)
  /\ is_winner' = WinnerAfterScore(is_winner, mut[c].locals)
  /\ mut' = [mut EXCEPT ![c] = Settled(mut[c], "success")]
  /\ pc' = [pc EXCEPT ![c] = "idle"]
  /\ UNCHANGED <<tournament, score_events, match_scores, cache, last, initial, engineVars>>

\* undoPoint.mutate with the scorer's events: issues the delete
UndoBegin(c) ==
  /\ pc[c] = "idle"
  /\ Len(cache[c].events) > 0
  /\ MutationsBegun < MaxMutations
  /\ mut' = [mut EXCEPT ![c] =
               [kind |-> "undo", status |-> "pending", wrote |-> {}, n |-> mut[c].n + 1,
                lastEventId |-> UndoLocals(cache[c].events).lastEventId,
                locals |-> UndoLocals(cache[c].events)]]
  /\ pc' = [pc EXCEPT ![c] = "delete"]
  /\ UNCHANGED <<dbVars, cache, last, initial, engineVars>>

\* await score_events delete: applied (to whatever row has the id)
UndoDelete(c) ==
  /\ pc[c] = "delete"
  /\ score_events' = DeleteScoreEvent(score_events, mut[c].locals.lastEventId)
  /\ IF mut[c].locals.previousState # << >>
       THEN /\ mut' = [mut EXCEPT ![c].wrote = @ \cup {"score_events"}]
            /\ pc' = [pc EXCEPT ![c] = "restore"]
       ELSE /\ mut' = [mut EXCEPT ![c] =
                         Settled([mut[c] EXCEPT !.wrote = @ \cup {"score_events"}], "success")]
            /\ pc' = [pc EXCEPT ![c] = "idle"]
  /\ UNCHANGED <<tournament, match_scores, fixture_status, is_winner,
                 cache, last, initial, engineVars>>

\* await score_events delete: deleteError, mutationFn throws
UndoDeleteFails(c) ==
  /\ pc[c] = "delete"
  /\ mut' = [mut EXCEPT ![c] = Settled(mut[c], "error")]
  /\ pc' = [pc EXCEPT ![c] = "idle"]
  /\ UNCHANGED <<dbVars, cache, last, initial, engineVars>>

\* await match_scores update to previousState: applied; mutationFn returns
UndoRestore(c) ==
  /\ pc[c] = "restore"
  /\ match_scores' = MatchScoresAfterUndo(match_scores, mut[c].locals)
  /\ mut' = [mut EXCEPT ![c] =
               Settled([mut[c] EXCEPT !.wrote = @ \cup {"match_scores"}], "success")]
  /\ pc' = [pc EXCEPT ![c] = "idle"]
  /\ UNCHANGED <<tournament, score_events, fixture_status, is_winner,
                 cache, last, initial, engineVars>>

\* await match_scores update to previousState: updateError, mutationFn throws
UndoRestoreFails(c) ==
  /\ pc[c] = "restore"
  /\ mut' = [mut EXCEPT ![c] = Settled(mut[c], "error")]
  /\ pc' = [pc EXCEPT ![c] = "idle"]
  /\ UNCHANGED <<dbVars, cache, last, initial, engineVars>>

NextConc ==
  \E c \in Scorers :
    \/ FetchEvents(c)
    \/ FetchFixture(c)
    \/ \E scoringTeam \in Team : ScoreBegin(c, scoringTeam)
    \/ ScoreUpdate(c)
    \/ ScoreUpdateFails(c)
    \/ ScoreInsert(c)
    \/ ScoreInsertFails(c)
    \/ ScoreFixture(c)
    \/ UndoBegin(c)
    \/ UndoDelete(c)
    \/ UndoDeleteFails(c)
    \/ UndoRestore(c)
    \/ UndoRestoreFails(c)

SpecConc == InitHooks(ConcConfigs) /\ [][NextConc]_vars

(***************************************************************************)
(* Properties of the engines (checked under Spec)                          *)
(***************************************************************************)
IsTennis(s) == getScorer(s.config.sport) = "tennisScorer"
IsPickleball(s) == getScorer(s.config.sport) = "pickleballScorer"

\* the record, in s, of the set that was active in pre
ActiveSetOf(s) == s.sets[pre.currentSetIndex + 1]

\* the last call was scorePoint on an incomplete match
ScoredLive == op = "score" /\ ~pre.isComplete

\* the last point decided the set that was active
SetJustWon == ScoredLive /\ ActiveSetOf(state).winner # NoTeam

\* the last point completed a game outside a tiebreak (tennis)
GameJustWon ==
  /\ ScoredLive
  /\ IsTennis(pre)
  /\ ~ActiveSetOf(pre).isTiebreak
  /\ ActiveSetOf(state).team1Games + ActiveSetOf(state).team2Games
       = ActiveSetOf(pre).team1Games + ActiveSetOf(pre).team2Games + 1

\* C1: scorePoint on a complete match returns its input unchanged, in both
\* engines and for either side.
C1_CompleteIsNoOp ==
  (op = "score" /\ pre.isComplete) => state = pre

C1_Witness ==
  /\ op = "score"
  /\ pre.isComplete
  /\ lastTeam # pre.matchWinner
  /\ state = pre

\* C2: a set-winning point completes the match for the scorer exactly when
\* the scorer then has setsToWin sets (no set is appended); otherwise a new
\* empty set is appended and becomes the active set.
C2_MatchWinIffSetsToWin ==
  SetJustWon =>
    /\ ActiveSetOf(state).winner = lastTeam
    /\ IF SetsWonBy(state.sets, lastTeam) = state.config.setsToWin
         THEN /\ state.isComplete
              /\ state.matchWinner = lastTeam
              /\ Len(state.sets) = Len(pre.sets)
              /\ state.currentSetIndex = pre.currentSetIndex
         ELSE /\ ~state.isComplete
              /\ state.matchWinner = NoTeam
              /\ Len(state.sets) = Len(pre.sets) + 1
              /\ state.sets[Len(state.sets)] = createInitialSet(Len(state.sets))
              /\ state.currentSetIndex = pre.currentSetIndex + 1
              /\ state.currentSetIndex + 1 = Len(state.sets)

C2_Witness ==
  /\ SetJustWon
  /\ state.isComplete
  /\ state.matchWinner = lastTeam
  /\ Len(state.sets) = 3
  /\ SetsWonBy(state.sets, lastTeam) = state.config.setsToWin

\* C9 (as claimed): every point that completes a tennis game outside a
\* tiebreak flips the serving side, also when the game ends the set or the
\* match.
C9_ServerFlipsAfterEveryGame ==
  GameJustWon => state.servingTeam # pre.servingTeam

\* C10 (as claimed): under rally scoring every rally on an incomplete match
\* awards the scorer the point and leaves the scorer as the serving side.
C10_RallyScorerServes ==
  (ScoredLive /\ IsPickleball(pre) /\ pre.config.rallyScoring) =>
    /\ \/ /\ ActiveSetOf(state).winner = NoTeam
          /\ state.currentGame[IF lastTeam = 1 THEN "team1Points" ELSE "team2Points"]
               = pre.currentGame[IF lastTeam = 1 THEN "team1Points" ELSE "team2Points"] + 1
       \/ ActiveSetOf(state).winner = lastTeam
    /\ state.servingTeam = lastTeam

\* C10 (amended): under rally scoring a rally that does not win the game adds
\* one to the scorer's tally whichever side serves and makes the scorer the
\* serving side; a game-winning point hands the serve to the loser when a new
\* game starts and leaves the serving side as it was when it ends the match.
C10_RallyScorerServesUnlessGameWon ==
  (ScoredLive /\ IsPickleball(pre) /\ pre.config.rallyScoring) =>
    IF ActiveSetOf(state).winner = NoTeam
      THEN /\ state.currentGame[IF lastTeam = 1 THEN "team1Points" ELSE "team2Points"]
                = pre.currentGame[IF lastTeam = 1 THEN "team1Points" ELSE "team2Points"] + 1
           /\ state.currentGame[IF lastTeam = 1 THEN "team2Points" ELSE "team1Points"]
                = pre.currentGame[IF lastTeam = 1 THEN "team2Points" ELSE "team1Points"]
           /\ state.servingTeam = lastTeam
      ELSE /\ ActiveSetOf(state).winner = lastTeam
           /\ state.servingTeam =
                IF state.isComplete THEN pre.servingTeam
                ELSE (IF lastTeam = 1 THEN 2 ELSE 1)

C10_Witness ==
  /\ ScoredLive
  /\ IsPickleball(pre)
  /\ pre.config.rallyScoring
  /\ pre.servingTeam # lastTeam
  /\ ActiveSetOf(state).winner = NoTeam
  /\ state.servingTeam = lastTeam
  /\ pre.currentGame.team1Points + pre.currentGame.team2Points >= 2

(***************************************************************************)
(* Properties of undoLastPoint (checked under SpecUndo)                    *)
(***************************************************************************)
\* C3 (as claimed): undoLastPoint on a history of N >= 1 events returns the
\* snapshot of event N-1, or the initial state of the match when N = 1.
C3_UndoReturnsPreviousSnapshot ==
  (op = "undo" /\ Len(history) >= 1) =>
    undone[1] = IF Len(history) = 1 THEN initial
                ELSE history[Len(history) - 1].scoreSnapshot

\* C4 (as claimed): scorePoint on an incomplete state s followed by
\* undoLastPoint over the single-event history of that point returns s.
C4_ScoreUndoRoundTrip ==
  (op = "undo1" /\ ~pre.isComplete) => undone[1] = pre

(***************************************************************************)
(* Properties of the hooks with one scorer (checked under SpecHooks)       *)
(***************************************************************************)
\* C5 (as claimed): an undo on a log of N >= 1 events deletes exactly the
\* last event, and the state useMatchState then derives is the snapshot of
\* event N-1, or for N = 1 the initial state the match started from.
C5_UndoRestoresPriorState ==
  (last.op = "undo" /\ last.error = "") =>
    /\ score_events = SubSeq(last.events, 1, Len(last.events) - 1)
    /\ useMatchState("s1") =
         IF Len(last.events) = 1 THEN initial
         ELSE last.events[Len(last.events) - 1].scoreSnapshot

(***************************************************************************)
(* Properties of the hooks with two scorers (checked under SpecConc)       *)
(***************************************************************************)
\* the snapshot current just before event i was appended
SnapshotBefore(i) ==
  IF i = 1 THEN initial ELSE score_events[i - 1].scoreSnapshot

\* C6 (as claimed): of two points submitted on the same read of the current
\* state at most one is appended, so every event of the log carries the
\* engine's result on the snapshot of the event just before it (on the
\* initial state for the first event).
C6_EveryEventFollowsItsPredecessor ==
  \A i \in DOMAIN score_events :
    score_events[i].scoreSnapshot =
      scorePoint(getScorer(tournament.sport), SnapshotBefore(i),
                 score_events[i].scoringTeam)

\* C7 (as claimed): the match_scores update and the score_events insert of a
\* score mutation take effect together or not at all.
C7_UpdateAndInsertAreAtomic ==
  \A c \in Scorers :
    (pc[c] = "idle" /\ mut[c].kind = "score") =>
      (("match_scores" \in mut[c].wrote) <=> ("score_events" \in mut[c].wrote))

\* C8 (as claimed): an undo removes an event only if it is still the tail of
\* the log, so whenever the log loses an event it loses its last one.
C8_OnlyTheTailIsRemoved ==
  [][Len(score_events') < Len(score_events) =>
       score_events' = SubSeq(score_events, 1, Len(score_events) - 1)]_vars

(***************************************************************************)
(* Further properties of the engines (checked under Spec)                  *)
(***************************************************************************)
\* the last point was a rally won by the receiving side under a side-out policy
SideOutRally ==
  /\ ScoredLive
  /\ IsPickleball(pre)
  /\ ~pre.config.rallyScoring
  /\ lastTeam # pre.servingTeam

\* C11: under a side-out policy a rally won by the non-serving side changes
\* neither tally; from server slot 1 the slot becomes 2 and the serving side
\* stays, from slot 2 the serve passes to the other side with the slot back
\* at 1.  Consequently a tally increases only for the side that won the
\* rally while serving.
C11_SideOutMovesServeOnly ==
  /\ SideOutRally =>
       /\ state.currentGame.team1Points = pre.currentGame.team1Points
       /\ state.currentGame.team2Points = pre.currentGame.team2Points
       /\ state.sets = pre.sets
       /\ IF pre.currentGame.serverNumber = 1
            THEN /\ state.currentGame.serverNumber = 2
                 /\ state.servingTeam = pre.servingTeam
            ELSE /\ state.currentGame.serverNumber = 1
                 /\ state.servingTeam = lastTeam
  /\ (ScoredLive /\ IsPickleball(pre) /\ ~pre.config.rallyScoring) =>
       /\ state.currentGame.team1Points > pre.currentGame.team1Points =>
            (lastTeam = 1 /\ pre.servingTeam = 1)
       /\ state.currentGame.team2Points > pre.currentGame.team2Points =>
            (lastTeam = 2 /\ pre.servingTeam = 2)

C11_Witness ==
  /\ SideOutRally
  /\ pre.currentGame.serverNumber = 2
  /\ pre.currentGame.team1Points > 0
  /\ pre.currentGame.team2Points > 0
  /\ state.servingTeam = lastTeam
  /\ state.currentGame.serverNumber = 1

\* games of a side in a set record
GamesOf(set, team) == IF team = 1 THEN set.team1Games ELSE set.team2Games

OtherTeam(team) == IF team = 1 THEN 2 ELSE 1

\* C12: outside a tiebreak a game-winning point gives the active set a winner
\* exactly when the game winner then has at least gamesPerSet games and
\* leads by at least two games; the set winner is then the game winner.
C12_SetWonIffThresholdAndLead ==
  GameJustWon =>
    LET set == ActiveSetOf(state)
        mine == GamesOf(set, lastTeam)
        theirs == GamesOf(set, OtherTeam(lastTeam))
    IN /\ (set.winner # NoTeam) <=>
            (mine >= state.config.gamesPerSet /\ mine - theirs >= 2)
       /\ set.winner # NoTeam => set.winner = lastTeam

\* the 7-5 shape: the set is won at one game more than the threshold
C12_Witness ==
  /\ GameJustWon
  /\ ActiveSetOf(state).winner = lastTeam
  /\ GamesOf(ActiveSetOf(state), lastTeam) = state.config.gamesPerSet + 1
  /\ GamesOf(ActiveSetOf(state), OtherTeam(lastTeam)) = state.config.gamesPerSet - 1

\* the last point completed a game that levelled the set at the tiebreak threshold
TiebreakThresholdReached ==
  /\ GameJustWon
  /\ ActiveSetOf(state).team1Games = state.config.tiebreakAt
  /\ ActiveSetOf(state).team2Games = state.config.tiebreakAt

\* C13: after a game-winning point that brings both game counts of the
\* active set to the tiebreak threshold, the set is in tiebreak mode with
\* tally (0,0) and no winner, and the game is 0-0.
C13_TiebreakStartsAtThreshold ==
  TiebreakThresholdReached =>
    /\ ActiveSetOf(state).isTiebreak
    /\ ActiveSetOf(state).tiebreakScore = <<[team1 |-> 0, team2 |-> 0]>>
    /\ ActiveSetOf(state).winner = NoTeam
    /\ state.currentGame = tennis_createInitialGame
    /\ state.currentSetIndex = pre.currentSetIndex
    /\ ~state.isComplete

C13_Witness ==
  /\ TiebreakThresholdReached
  /\ state.config.tiebreakAt = 2
  /\ state.config.gamesPerSet = 3
  /\ ActiveSetOf(state).isTiebreak
  /\ ~ActiveSetOf(pre).isTiebreak

\* the last point was played in a tiebreak
TiebreakPointPlayed ==
  /\ ScoredLive
  /\ IsTennis(pre)
  /\ ActiveSetOf(pre).isTiebreak

\* tiebreak tally of a side in a set record
TallyOf(set, team) ==
  IF team = 1 THEN set.tiebreakScore[1].team1 ELSE set.tiebreakScore[1].team2

\* C14: a tiebreak point adds one to the scorer's tally only; it wins the
\* tiebreak and the set, with one game added to the winner, exactly when the
\* scorer's new tally has reached the target and leads by at least two;
\* otherwise the set stays undecided with its game counts unchanged.
C14_TiebreakWonAtTargetByTwo ==
  TiebreakPointPlayed =>
    LET old == ActiveSetOf(pre)
        new == ActiveSetOf(state)
        other == OtherTeam(lastTeam)
        mine == TallyOf(new, lastTeam)
        theirs == TallyOf(new, other)
    IN /\ mine = TallyOf(old, lastTeam) + 1
       /\ theirs = TallyOf(old, other)
       /\ GamesOf(new, other) = GamesOf(old, other)
       /\ new.isTiebreak
       /\ IF mine >= tiebreakTarget(old, pre.config) /\ mine - theirs >= 2
            THEN /\ new.winner = lastTeam
                 /\ GamesOf(new, lastTeam) = GamesOf(old, lastTeam) + 1
            ELSE /\ new.winner = NoTeam
                 /\ GamesOf(new, lastTeam) = GamesOf(old, lastTeam)
                 /\ state.currentGame = pre.currentGame
                 /\ state.currentSetIndex = pre.currentSetIndex
                 /\ Len(state.sets) = Len(pre.sets)
                 /\ ~state.isComplete

\* the 8-6 shape: a tiebreak won past the target, right after a point at the
\* target that did not win it
C14_Witness ==
  /\ TiebreakPointPlayed
  /\ ActiveSetOf(state).winner = lastTeam
  /\ TallyOf(ActiveSetOf(state), lastTeam) = tiebreakTarget(ActiveSetOf(pre), pre.config) + 1
  /\ TallyOf(ActiveSetOf(state), OtherTeam(lastTeam)) = tiebreakTarget(ActiveSetOf(pre), pre.config) - 1
  /\ GamesOf(ActiveSetOf(state), lastTeam) = pre.config.tiebreakAt + 1

\* C15: the tiebreak target is the policy's finalSetTiebreakPoints when the
\* set is the deciding one (set number 2 * setsToWin - 1) and the policy
\* enables the final-set tiebreak, and 7 otherwise: a tiebreak point wins
\* exactly on reaching that number with a lead of two.
C15_TiebreakTargetByPolicy ==
  TiebreakPointPlayed =>
    LET old == ActiveSetOf(pre)
        new == ActiveSetOf(state)
        target == IF old.setNumber = 2 * pre.config.setsToWin - 1
                       /\ pre.config.finalSetTiebreak
                    THEN pre.config.finalSetTiebreakPoints
                    ELSE 7
        mine == TallyOf(new, lastTeam)
        theirs == TallyOf(new, OtherTeam(lastTeam))
    IN /\ tiebreakTarget(old, pre.config) = target
       /\ (new.winner # NoTeam) <=> (mine >= target /\ mine - theirs >= 2)

\* a deciding third set won at a final-set target other than 7
C15_Witness ==
  /\ TiebreakPointPlayed
  /\ ActiveSetOf(pre).setNumber = 3
  /\ pre.config.setsToWin = 2
  /\ pre.config.finalSetTiebreak
  /\ pre.config.finalSetTiebreakPoints = 5
  /\ ActiveSetOf(state).winner = lastTeam
  /\ TallyOf(ActiveSetOf(state), lastTeam) = 5
  /\ state.isComplete

\* tiebreak points played so far in a set record
TiebreakPointsPlayed(set) == TallyOf(set, 1) + TallyOf(set, 2)

\* C16: while a tiebreak is undecided the serving side changes exactly after
\* the 1st, 3rd, 5th, ... tiebreak point and stays after the 2nd, 4th, ...;
\* so the side serving at the start serves the first point only and each
\* side then serves two points in a row.
C16_TiebreakServeAlternates ==
  (TiebreakPointPlayed /\ ActiveSetOf(state).winner = NoTeam) =>
    LET n == TiebreakPointsPlayed(ActiveSetOf(state)) IN
      /\ n = TiebreakPointsPlayed(ActiveSetOf(pre)) + 1
      /\ IF n % 2 = 1
           THEN state.servingTeam = OtherTeam(pre.servingTeam)
           ELSE state.servingTeam = pre.servingTeam

\* the fifth tiebreak point has been played and the serve changed hands
C16_Witness ==
  /\ TiebreakPointPlayed
  /\ ActiveSetOf(state).winner = NoTeam
  /\ TiebreakPointsPlayed(ActiveSetOf(state)) = 5
  /\ state.servingTeam = OtherTeam(pre.servingTeam)

Deuce == [team1Points |-> "40", team2Points |-> "40"]

\* point label of a side in a game record
PointsOf(game, team) == IF team = 1 THEN game.team1Points ELSE game.team2Points

\* s is a live tennis state with a regular game in progress
InRegularGame(s) ==
  /\ IsTennis(s)
  /\ ~s.isComplete
  /\ ~s.sets[s.currentSetIndex + 1].isTiebreak

\* the engine's scorePoint for the sport of s
Score(s, scoringTeam) == scorePoint(getScorer(s.config.sport), s, scoringTeam)

\* C17: under advantage scoring, from 40-40 a point for one side followed by
\* a point for the other side gives back the 40-40 match state (labels, game
\* counts, sets and serving side unchanged); seen from the second point, a
\* point against the advantage restores 40-40 and changes nothing else.
C17_AdvantageIsReversible ==
  /\ (InRegularGame(state) /\ state.config.advantageScoring /\ state.currentGame = Deuce) =>
       \A a \in Team : Score(Score(state, a), OtherTeam(a)) = state
  /\ (ScoredLive /\ InRegularGame(pre) /\ PointsOf(pre.currentGame, OtherTeam(lastTeam)) = "AD") =>
       state = [pre EXCEPT !.currentGame = Deuce]

C17_Witness ==
  /\ ScoredLive
  /\ InRegularGame(pre)
  /\ pre.config.advantageScoring
  /\ PointsOf(pre.currentGame, OtherTeam(lastTeam)) = "AD"
  /\ PointsOf(pre.currentGame, lastTeam) = "40"
  /\ state.currentGame = Deuce
  /\ state.sets = pre.sets
  /\ state.servingTeam = pre.servingTeam

\* the set record, in s, of the set that is active in state
SetOfCurrent(s) == s.sets[state.currentSetIndex + 1]

\* C18: under advantage scoring, from 40-40 two points in a row for side a
\* win the game for a: the first makes a's label AD against 40 and awards no
\* game, the second adds one game to a (none to the other side) and resets
\* the labels to 0-0.
C18_TwoPointsFromDeuceWinGame ==
  /\ (InRegularGame(state) /\ state.config.advantageScoring /\ state.currentGame = Deuce) =>
       \A a \in Team :
         LET first == Score(state, a)
             second == Score(first, a)
         IN /\ PointsOf(first.currentGame, a) = "AD"
            /\ PointsOf(first.currentGame, OtherTeam(a)) = "40"
            /\ first.sets = state.sets
            /\ GamesOf(SetOfCurrent(second), a) = GamesOf(SetOfCurrent(state), a) + 1
            /\ GamesOf(SetOfCurrent(second), OtherTeam(a))
                 = GamesOf(SetOfCurrent(state), OtherTeam(a))
            /\ second.currentGame = tennis_createInitialGame
  /\ (ScoredLive /\ InRegularGame(pre) /\ PointsOf(pre.currentGame, lastTeam) = "AD") =>
       /\ GamesOf(ActiveSetOf(state), lastTeam) = GamesOf(ActiveSetOf(pre), lastTeam) + 1
       /\ GamesOf(ActiveSetOf(state), OtherTeam(lastTeam))
            = GamesOf(ActiveSetOf(pre), OtherTeam(lastTeam))
       /\ state.currentGame = tennis_createInitialGame

C18_Witness ==
  /\ ScoredLive
  /\ InRegularGame(pre)
  /\ pre.config.advantageScoring
  /\ PointsOf(pre.currentGame, lastTeam) = "AD"
  /\ PointsOf(pre.currentGame, OtherTeam(lastTeam)) = "40"
  /\ GamesOf(ActiveSetOf(state), lastTeam) = GamesOf(ActiveSetOf(pre), lastTeam) + 1
  /\ state.currentGame = tennis_createInitialGame

\* C19: with advantage scoring disabled a single point from 40-40 wins the
\* game for the scoring side: its game count in the active set rises by one,
\* the other side's does not, the labels reset to 0-0, and no label is ever AD.
C19_SuddenDeathDeuce ==
  /\ (InRegularGame(state) /\ ~state.config.advantageScoring /\ state.currentGame = Deuce) =>
       \A a \in Team :
         LET next == Score(state, a) IN
           /\ GamesOf(SetOfCurrent(next), a) = GamesOf(SetOfCurrent(state), a) + 1
           /\ GamesOf(SetOfCurrent(next), OtherTeam(a))
                = GamesOf(SetOfCurrent(state), OtherTeam(a))
           /\ next.currentGame = tennis_createInitialGame
  /\ (ScoredLive /\ InRegularGame(pre) /\ ~pre.config.advantageScoring
        /\ pre.currentGame = Deuce) =>
       /\ GamesOf(ActiveSetOf(state), lastTeam) = GamesOf(ActiveSetOf(pre), lastTeam) + 1
       /\ GamesOf(ActiveSetOf(state), OtherTeam(lastTeam))
            = GamesOf(ActiveSetOf(pre), OtherTeam(lastTeam))
       /\ state.currentGame = tennis_createInitialGame
  /\ (IsTennis(state) /\ ~state.config.advantageScoring) =>
       /\ state.currentGame.team1Points # "AD"
       /\ state.currentGame.team2Points # "AD"

C19_Witness ==
  /\ ScoredLive
  /\ InRegularGame(pre)
  /\ ~pre.config.advantageScoring
  /\ pre.currentGame = Deuce
  /\ GamesOf(ActiveSetOf(state), lastTeam) = GamesOf(ActiveSetOf(pre), lastTeam) + 1
  /\ state.currentGame = tennis_createInitialGame

\* C20: from a 0-0 game of a live tennis match outside a tiebreak, four points
\* in a row for the same side add exactly one game to that side in the set
\* that was active and none to the other side, and leave both labels at 0;
\* no game is awarded before the fourth point.
C20_FourPointsWinGame ==
  /\ (InRegularGame(state) /\ state.currentGame = tennis_createInitialGame) =>
       \A a \in Team :
         LET third == Score(Score(Score(state, a), a), a)
             fourth == Score(third, a)
         IN /\ third.sets = state.sets
            /\ PointsOf(third.currentGame, a) = "40"
            /\ PointsOf(third.currentGame, OtherTeam(a)) = "0"
            /\ GamesOf(SetOfCurrent(fourth), a) = GamesOf(SetOfCurrent(state), a) + 1
            /\ GamesOf(SetOfCurrent(fourth), OtherTeam(a))
                 = GamesOf(SetOfCurrent(state), OtherTeam(a))
            /\ fourth.currentGame = tennis_createInitialGame
  /\ (ScoredLive /\ InRegularGame(pre) /\ PointsOf(pre.currentGame, lastTeam) = "40"
        /\ PointsOf(pre.currentGame, OtherTeam(lastTeam)) = "0") =>
       /\ GamesOf(ActiveSetOf(state), lastTeam) = GamesOf(ActiveSetOf(pre), lastTeam) + 1
       /\ GamesOf(ActiveSetOf(state), OtherTeam(lastTeam))
            = GamesOf(ActiveSetOf(pre), OtherTeam(lastTeam))
       /\ state.currentGame = tennis_createInitialGame

\* the fourth point in a row of a love game has been played
C20_Witness ==
  /\ ScoredLive
  /\ InRegularGame(pre)
  /\ PointsOf(pre.currentGame, lastTeam) = "40"
  /\ PointsOf(pre.currentGame, OtherTeam(lastTeam)) = "0"
  /\ GamesOf(ActiveSetOf(state), lastTeam) = GamesOf(ActiveSetOf(pre), lastTeam) + 1
  /\ state.currentGame = tennis_createInitialGame
  /\ ~state.isComplete

\* the label one step after a label below 40
NextLabel(label) ==
  CASE label = "0" -> "15"
    [] label = "15" -> "30"
    [] label = "30" -> "40"

\* game record with the label of one side replaced
WithPoints(game, team, label) ==
  IF team = 1 THEN [game EXCEPT !.team1Points = label]
  ELSE [game EXCEPT !.team2Points = label]

\* C21: outside a tiebreak, when the scoring side's label is 0, 15 or 30 a
\* point moves that label one step along 0, 15, 30, 40 and changes nothing
\* else: the opponent's label, the sets, the serving side, matchWinner and
\* isComplete are as before.
C21_PointAdvancesOneLabel ==
  (ScoredLive /\ InRegularGame(pre)
     /\ PointsOf(pre.currentGame, lastTeam) \in {"0", "15", "30"}) =>
    state = [pre EXCEPT
               !.currentGame =
                 WithPoints(pre.currentGame, lastTeam,
                            NextLabel(PointsOf(pre.currentGame, lastTeam)))]

\* 30-40 becomes 40-40, late in a match
C21_Witness ==
  /\ ScoredLive
  /\ InRegularGame(pre)
  /\ PointsOf(pre.currentGame, lastTeam) = "30"
  /\ PointsOf(pre.currentGame, OtherTeam(lastTeam)) = "40"
  /\ state.currentGame = Deuce
  /\ state.sets = pre.sets
  /\ Len(pre.sets) = 2

\* the last call awarded a point in the pickleball engine (not a side-out)
PickleballPointAwarded ==
  /\ ScoredLive
  /\ IsPickleball(pre)
  /\ ~SideOutRally

\* C22: a pickleball point wins the game exactly when the scorer's new tally
\* is at least the points-per-game target (11 when the policy names none)
\* and, where the policy requires winning by two, leads by at least two;
\* otherwise only the scorer's tally rises by one and the game continues.
C22_PickleballGameWinRule ==
  PickleballPointAwarded =>
    LET target == IF pre.config.pointsPerGame = 0 THEN 11 ELSE pre.config.pointsPerGame
        new == PointsOf(pre.currentGame, lastTeam) + 1
        theirs == PointsOf(pre.currentGame, OtherTeam(lastTeam))
        won == new >= target /\ (pre.config.winByTwo => new - theirs >= 2)
    IN IF won
         THEN /\ ActiveSetOf(state).winner = lastTeam
              /\ ActiveSetOf(pre).winner = NoTeam
         ELSE /\ PointsOf(state.currentGame, lastTeam) = new
              /\ PointsOf(state.currentGame, OtherTeam(lastTeam)) = theirs
              /\ state.currentGame.serverNumber = pre.currentGame.serverNumber
              /\ state.sets = pre.sets
              /\ state.currentSetIndex = pre.currentSetIndex
              /\ ~state.isComplete

\* under win-by-two a point at the target one ahead leaves the game open
C22_Witness ==
  /\ PickleballPointAwarded
  /\ pre.config.winByTwo
  /\ PointsOf(state.currentGame, lastTeam) = pointsToWin(pre.config)
  /\ PointsOf(state.currentGame, OtherTeam(lastTeam)) = pointsToWin(pre.config) - 1
  /\ ActiveSetOf(state).winner = NoTeam
  /\ state.sets = pre.sets

\* the last pickleball point won a game without completing the match
PickleballGameWonMatchOpen ==
  /\ PickleballPointAwarded
  /\ ActiveSetOf(state).winner # NoTeam
  /\ ~state.isComplete

\* C23: when a pickleball point wins a game and the match is not thereby
\* complete, the finished set records the scorer as winner with one game
\* won, a new empty set is appended and made active, both tallies are 0 and
\* the side that lost the game serves.
C23_PickleballNextGame ==
  PickleballGameWonMatchOpen =>
    /\ ActiveSetOf(state).winner = lastTeam
    /\ GamesOf(ActiveSetOf(state), lastTeam) = 1
    /\ GamesOf(ActiveSetOf(state), OtherTeam(lastTeam)) = 0
    /\ Len(state.sets) = Len(pre.sets) + 1
    /\ SubSeq(state.sets, 1, pre.currentSetIndex) = SubSeq(pre.sets, 1, pre.currentSetIndex)
    /\ state.sets[Len(state.sets)] = createInitialSet(Len(state.sets))
    /\ state.currentSetIndex = pre.currentSetIndex + 1
    /\ state.currentSetIndex + 1 = Len(state.sets)
    /\ state.currentGame.team1Points = 0
    /\ state.currentGame.team2Points = 0
    /\ state.servingTeam = OtherTeam(lastTeam)
    /\ state.matchWinner = NoTeam

\* a second game won that levels the match at one game each
C23_Witness ==
  /\ PickleballGameWonMatchOpen
  /\ Len(state.sets) = 3
  /\ state.sets[1].winner = OtherTeam(lastTeam)
  /\ state.sets[2].winner = lastTeam
  /\ state.servingTeam = OtherTeam(lastTeam)
  /\ state.currentGame = pickleball_createInitialGame

\* C29: in every state reachable from createInitialState by scorePoint
\* calls, in both engines, matchWinner is set exactly when isComplete is true.
C29_WinnerIffComplete ==
  (state.matchWinner # NoTeam) <=> state.isComplete

\* a pickleball match has just been completed and names its winner
C29_Witness ==
  /\ ScoredLive
  /\ IsPickleball(pre)
  /\ state.isComplete
  /\ state.matchWinner = lastTeam
  /\ pre.matchWinner = NoTeam

\* C30: in every reachable state, while the match is not complete
\* sets[currentSetIndex] has no winner and every other set has one; once the
\* match is complete every set has a winner.
C30_OnlyActiveSetIsOpen ==
  /\ state.currentSetIndex + 1 \in DOMAIN state.sets
  /\ IF state.isComplete
       THEN \A i \in DOMAIN state.sets : state.sets[i].winner # NoTeam
       ELSE \A i \in DOMAIN state.sets :
              (state.sets[i].winner = NoTeam) <=> (i = state.currentSetIndex + 1)

\* a set has just been decided and a third one opened
C30_Witness ==
  /\ SetJustWon
  /\ ~state.isComplete
  /\ Len(state.sets) = 3
  /\ state.currentSetIndex = 2
  /\ state.sets[1].winner # NoTeam
  /\ state.sets[2].winner # NoTeam
  /\ state.sets[3].winner = NoTeam

\* C37: in every reachable tennis state at most one side's point label is AD,
\* a side holds AD only while the other side's label is 40, and under a
\* policy without advantage scoring no label is AD.
C37_AdvantageLabels ==
  IsTennis(state) =>
    /\ ~(PointsOf(state.currentGame, 1) = "AD" /\ PointsOf(state.currentGame, 2) = "AD")
    /\ \A t \in Team :
         PointsOf(state.currentGame, t) = "AD" => PointsOf(state.currentGame, OtherTeam(t)) = "40"
    /\ ~state.config.advantageScoring =>
         \A t \in Team : PointsOf(state.currentGame, t) # "AD"

C37_Witness ==
  /\ IsTennis(state) /\ op = "score"
  /\ PointsOf(pre.currentGame, 1) = "AD" /\ lastTeam = 2
  /\ PointsOf(state.currentGame, 1) = "40" /\ PointsOf(state.currentGame, 2) = "40"

\* C38: in every reachable state of both engines, sets has exactly
\* currentSetIndex + 1 entries, the set at position i (from 0) has
\* setNumber i + 1, neither side has won more than setsToWin sets, and
\* there are at most 2 * setsToWin - 1 sets.
C38_SetsStructure ==
  /\ Len(state.sets) = state.currentSetIndex + 1
  /\ \A i \in 1..Len(state.sets) : state.sets[i].setNumber = i
  /\ \A t \in Team : SetsWonBy(state.sets, t) <= state.config.setsToWin
  /\ Len(state.sets) <= 2 * state.config.setsToWin - 1

C38_Witness ==
  /\ op = "score" /\ ~pre.isComplete
  /\ state.isComplete
  /\ state.config.setsToWin = 2
  /\ Len(state.sets) = 3
  /\ SetsWonBy(state.sets, 1) = 2 /\ SetsWonBy(state.sets, 2) = 1

\* C39: a scorePoint call leaves every set that already has a winner as it
\* was (game counts, tiebreak flag and tally, winner), and changes the sets
\* sequence only by updating the active set and by appending one set at the
\* end.
C39_DecidedSetsAreFrozen ==
  op = "score" =>
    /\ Len(state.sets) \in {Len(pre.sets), Len(pre.sets) + 1}
    /\ \A i \in 1..Len(pre.sets) :
         (pre.sets[i].winner # NoTeam \/ i # pre.currentSetIndex + 1) =>
           state.sets[i] = pre.sets[i]
    /\ Len(state.sets) = Len(pre.sets) + 1 =>
         /\ state.sets[Len(state.sets)].winner = NoTeam
         /\ state.currentSetIndex = pre.currentSetIndex + 1

\* a point of the second set, the first one decided in a tiebreak
C39_Witness ==
  /\ op = "score" /\ ~pre.isComplete
  /\ pre.currentSetIndex = 1
  /\ pre.sets[1].winner # NoTeam /\ pre.sets[1].isTiebreak
  /\ state.sets[1] = pre.sets[1]
  /\ state.sets[2] # pre.sets[2]

\* C32: every set in tiebreak mode of a reachable state has a tiebreak
\* tally, so scoreTiebreakPoint never throws 'Tiebreak score not initialized'
\* on a reachable state.
C32_TiebreakTallyPresent ==
  /\ \A i \in 1..Len(state.sets) :
       state.sets[i].isTiebreak => state.sets[i].tiebreakScore # << >>
  /\ IsTennis(state) => ~tennis_scorePointThrows(state)

C32_Witness ==
  /\ IsTennis(state) /\ op = "score"
  /\ ActiveSetOf(pre).isTiebreak
  /\ ~pre.isComplete
  /\ ActiveSetOf(state).isTiebreak
  /\ TallyOf(ActiveSetOf(state), 1) + TallyOf(ActiveSetOf(state), 2) >= 2

\* C33: under a policy with tiebreakAt = 0 no set of a reachable state is in
\* tiebreak mode, and every decided set was won with at least gamesPerSet
\* games and a lead of two games.
C33_NoTiebreakWhenDisabled ==
  (IsTennis(state) /\ state.config.tiebreakAt = 0) =>
    \A i \in 1..Len(state.sets) :
      LET set == state.sets[i] IN
      /\ ~set.isTiebreak
      /\ set.tiebreakScore = << >>
      /\ set.winner # NoTeam =>
            /\ GamesOf(set, set.winner) >= state.config.gamesPerSet
            /\ GamesOf(set, set.winner) - GamesOf(set, OtherTeam(set.winner)) >= 2

C33_Witness ==
  /\ IsTennis(state) /\ state.config.tiebreakAt = 0
  /\ op = "score" /\ SetJustWon
  /\ \E i \in 1..Len(state.sets) :
       /\ state.sets[i].winner # NoTeam
       /\ state.sets[i].team1Games >= 1
       /\ state.sets[i].team2Games >= 1

(***************************************************************************)
(* SpecAnySide: the engines called with any number as the scoring side.    *)
(* Team is a compile-time type (1 | 2); at run time scorePoint receives    *)
(* whatever its caller passes                                              *)
(***************************************************************************)
\* numbers that are not a side of the match
InvalidSides == {3}

\* scorer.scorePoint throws on this state (the only throw is in the tennis
\* tiebreak branch; the pickleball engine has none)
scorePointThrows(scorer, s) ==
  scorer = "tennisScorer" /\ tennis_scorePointThrows(s)

\* scorer.scorePoint(state, scoringTeam) with scoringTeam any number: the
\* call throws, or returns a state.  A match is followed up to its first call
\* with an invalid side; what the engine makes of the state that call
\* returned is not explored.
ScorePointAnySide(scoringTeam) ==
  LET scorer == getScorer(state.config.sport) IN
  /\ lastTeam \notin InvalidSides
  /\ pre' = state
  /\ lastTeam' = scoringTeam
  /\ IF scorePointThrows(scorer, state)
       THEN /\ op' = "throw"
            /\ state' = state
       ELSE /\ WithinBounds(scorePoint(scorer, state, scoringTeam))
            /\ op' = "score"
            /\ state' = scorePoint(scorer, state, scoringTeam)
  /\ UNCHANGED <<initial, history, undone, hookVars>>

NextAnySide ==
  \E scoringTeam \in Team \cup InvalidSides : ScorePointAnySide(scoringTeam)

SpecAnySide == Init /\ [][NextAnySide]_vars

(***************************************************************************)
(* Properties of the engines called with any side (checked under           *)
(* SpecAnySide)                                                            *)
(***************************************************************************)
\* C25 (as claimed): scorePoint called with a side that is neither 1 nor 2
\* is reported as an error: the call never returns a state.
C25_InvalidSideIsAnError ==
  lastTeam \in InvalidSides => op = "throw"

(***************************************************************************)
(* Further properties of the hooks (checked under SpecHooks)               *)
(***************************************************************************)
\* C24: the match state the scorer's page uses (useMatchState) is the
\* snapshot of the last event of the ordered event log, and with an empty
\* log it is createInitialState of the engine the registry selects for the
\* tournament's sport, built for the tournament's scoring policy.
C24_CurrentStateIsLastSnapshot ==
  IF Len(score_events) > 0
    THEN useMatchState("s1") = score_events[Len(score_events)].scoreSnapshot
    ELSE \E servingTeam \in Team :
           useMatchState("s1") =
             createInitialState(getScorer(tournament.sport), FixtureId,
                                tournament.scoringConfig, servingTeam)

\* three points are logged, the last one just scored, and the page shows its snapshot
C24_Witness ==
  /\ last.op = "score"
  /\ Len(score_events) = 3
  /\ useMatchState("s1") = score_events[3].scoreSnapshot
  /\ score_events[3].scoreSnapshot # score_events[2].scoreSnapshot
  /\ score_events[3].scoringTeam = last.scoringTeam

\* C31 (as claimed): after every completed score or undo of a single scorer
\* the match_scores row equals the projection (sets won per side, current
\* set number, games of the current set, current point values, serving
\* side) of the current state derived from the event log.
C31_ProjectionFollowsLog ==
  (last.op \in {"score", "undo"} /\ last.error = "") =>
    match_scores = MatchScoresUpdate(useMatchState("s1"))

\* C34 (as claimed): useScorePoint invoked on a match whose current state is
\* complete appends no event and leaves the derived current state unchanged.
C34_ScoreOnCompleteIsNoOp ==
  (last.op = "score" /\ last.error = "" /\ last.view.isComplete) =>
    /\ score_events = last.events
    /\ useMatchState("s1") = last.view

\* C36 (as claimed): the fixture is 'completed', and a side is flagged
\* is_winner, only if the current state derived from the event log is
\* complete with that side as the winner.
C36_CompletedOnlyIfLogComplete ==
  LET currentState == useMatchState("s1") IN
  /\ fixture_status = "completed" => currentState.isComplete
  /\ \A t \in Team : is_winner[t] =>
       (currentState.isComplete /\ currentState.matchWinner = t)

\* C27 (as claimed): useUndoPoint invoked on a match whose event log is
\* empty is a no-op: it completes without an error and leaves the log as it
\* was.
C27_EmptyLogUndoIsNoOp ==
  (last.op = "undo" /\ Len(last.events) = 0) =>
    /\ last.error = ""
    /\ score_events = last.events

(***************************************************************************)
(* Further properties of undoLastPoint (checked under SpecUndo)            *)
(***************************************************************************)
\* C26: undoLastPoint with an empty event list returns the given state
\* unchanged and raises no error, in both engines and on any state.
C26_UndoEmptyIsNoOp ==
  /\ op = "undoEmpty" => undone = <<state>>
  /\ (op = "undo" /\ Len(history) = 0) => undone = <<state>>

\* the call was made on a state three points into a match
C26_Witness ==
  /\ op = "undoEmpty"
  /\ Len(history) = 3
  /\ state # initial
  /\ undone = <<state>>

(***************************************************************************)
(* SpecRegistry: a match of each sport of SportType, its engine taken from *)
(* the registry                                                            *)
(***************************************************************************)
\* one policy per sport, the same numbers for all four
RegistryConfigs ==
  { [sport |-> sport, setsToWin |-> 1, gamesPerSet |-> 2, tiebreakAt |-> 2,
     finalSetTiebreak |-> FALSE, finalSetTiebreakPoints |-> 0,
     advantageScoring |-> TRUE, pointsPerGame |-> 3,
     winByTwo |-> TRUE, rallyScoring |-> TRUE] : sport \in SportType }

\* getScorer(config.sport).createInitialState(fixtureId, config, servingTeam)
InitRegistry ==
  /\ \E config \in RegistryConfigs, servingTeam \in Team :
       state = createInitialState(getScorer(config.sport), FixtureId, config, servingTeam)
  /\ pre = state
  /\ lastTeam = NoTeam
  /\ op = "init"
  /\ initial = state
  /\ history = << >>
  /\ undone = << >>
  /\ HooksUnused

SpecRegistry == InitRegistry /\ [][Next]_vars

\* C28: getScorer gives the tennis engine for 'tennis', the pickleball
\* engine for 'pickleball', and the tennis (advantage-scoring) engine for
\* 'badminton' and 'padel': a match of each sport starts from that engine's
\* initial state and every point is scored by that engine.
C28_RegistrySelectsEngine ==
  LET pickle(s) == s.config.sport = "pickleball" IN
  /\ state.config.sport \in SportType
  /\ initial = IF pickle(initial)
                 THEN pickleball_createInitialState(FixtureId, initial.config,
                                                    initial.servingTeam)
                 ELSE tennis_createInitialState(FixtureId, initial.config,
                                                initial.servingTeam)
  /\ op = "score" =>
       state = IF pickle(pre) THEN pickleball_scorePoint(pre, lastTeam)
               ELSE tennis_scorePoint(pre, lastTeam)

\* a badminton match scored by the tennis engine: a side holds the advantage
C28_Witness ==
  /\ op = "score"
  /\ state.config.sport = "badminton"
  /\ PointsOf(state.currentGame, lastTeam) = "AD"
  /\ PointsOf(state.currentGame, OtherTeam(lastTeam)) = "40"

(***************************************************************************)
(* SpecStreak: a match played point by point in which, from some point on, *)
(* every rally is won by the same side.  The caller goes on calling        *)
(* scorePoint for that side while the match is not complete.               *)
(***************************************************************************)
\* scorer.scorePoint(state, scoringTeam) of a streak: its first point is
\* scored from any state of the match, every later one by the same side
StreakPoint(scoringTeam) ==
  LET scorer == getScorer(state.config.sport) IN
  /\ ~state.isComplete
  /\ ~scorePointThrows(scorer, state)
  /\ op = "streak" => scoringTeam = lastTeam
  /\ state' = scorePoint(scorer, state, scoringTeam)
  /\ pre' = state
  /\ lastTeam' = scoringTeam
  /\ op' = "streak"
  /\ UNCHANGED <<initial, history, undone, hookVars>>

\* the next call of a streak under way
StreakContinue == op = "streak" /\ StreakPoint(lastTeam)

NextStreak ==
  \/ \E scoringTeam \in Team : op # "streak" /\ TennisPoint(scoringTeam)
  \/ \E scoringTeam \in Team : op # "streak" /\ PickleballPoint(scoringTeam)
  \/ \E scoringTeam \in Team : StreakPoint(scoringTeam)

\* every rally of the streak is played: the call for it is made as long as
\* the match is open
SpecStreak == Init /\ [][NextStreak]_vars /\ WF_vars(StreakContinue)

(***************************************************************************)
(* Properties of a streak (checked under SpecStreak)                       *)
(***************************************************************************)
\* C35: once every rally is won by the same side, the match becomes complete
\* after finitely many scorePoint calls, with that side as matchWinner.
C35_StreakCompletesMatch ==
  (op = "streak") ~> (state.isComplete /\ state.matchWinner = lastTeam)

\* a streak begun by the side behind in a tiebreak has won the match
C35_Witness ==
  /\ op = "streak"
  /\ state.isComplete /\ state.matchWinner = lastTeam
  /\ ~pre.isComplete
  /\ IsTennis(state)
  /\ ActiveSetOf(state).isTiebreak

====
